---------------------------- MODULE Spec2Model ----------------------------
(***************************************************************************)
(* Model of the conshash consistent-hashing ring (src/src/lib.rs).         *)
(*                                                                         *)
(* The ring is a BTreeMap<u64, T> together with the replica count fixed    *)
(* by Ring::new.  The operations are add_node, remove_node, get_node and   *)
(* the batch forms add_nodes / remove_nodes.  A failed assert! terminates  *)
(* the caller; it is modelled by the flag `aborted`, after which no        *)
(* operation runs.                                                         *)
(*                                                                         *)
(* std's DefaultHasher is a fixed but opaque function.  It is modelled by  *)
(* a table `h`, chosen arbitrarily when the model starts and never changed *)
(* afterwards, from the strings the ring can hash to a bounded position    *)
(* space; collisions are therefore possible, as they are for u64.          *)
(***************************************************************************)
EXTENDS Integers, Sequences, FiniteSets, TLC

\* ------------------------------------------------------------------ bounds
\* Largest replica count Ring::new is called with.
MaxReplicas == 2
\* Positions (u64 in the code) are drawn from 0 .. MaxPos.
MaxPos == 3
\* Longest slice handed to add_nodes / remove_nodes.
MaxBatch == 2

Positions == 0 .. MaxPos

\* ------------------------------------------------------------------- nodes
\* The node type of the tests: three fields, of which only ip_address and
\* port enter the string representation.
TestNode ==
    { [host_name |-> "Skynet",  ip_address |-> "10.0.0.1",  port |-> 42],
      [host_name |-> "Inferno", ip_address |-> "10.0.0.14", port |-> 2],
      [host_name |-> "Klimt",   ip_address |-> "127.0.0.1", port |-> 1] }

Digit(d) ==
    CASE d = 0 -> "0" [] d = 1 -> "1" [] d = 2 -> "2" [] d = 3 -> "3"
      [] d = 4 -> "4" [] d = 5 -> "5" [] d = 6 -> "6" [] d = 7 -> "7"
      [] d = 8 -> "8" [] d = 9 -> "9"

\* Display of an unsigned integer: its decimal digits, most significant first.
RECURSIVE int_to_string(_)
int_to_string(n) ==
    IF n < 10 THEN Digit(n) ELSE int_to_string(n \div 10) \o Digit(n % 10)

\* impl ToString for TestNode: format!("{}{}", ip_address, port).
to_string(node) == node.ip_address \o int_to_string(node.port)

\* The string add_node / remove_node hash for replica i of a node.
replica_string(node, i) == to_string(node) \o int_to_string(i)

\* Every string a ring with r replicas can hash.
HashDomain(r) == { replica_string(n, i) : n \in TestNode, i \in 0 .. (r - 1) }

VARIABLES
    num_replicas,   \* Ring.num_replicas
    ring,           \* Ring.ring: a function from the stored positions to nodes
    h,              \* the table of DefaultHasher on HashDomain(num_replicas)
    aborted,        \* an assert! has failed
    registered,     \* history: nodes added and not removed since
    used,           \* history: nodes ever handed to an operation
    last            \* history: the last call, its arguments and its result

vars == <<num_replicas, ring, h, aborted, registered, used, last>>

\* pub fn hash: the position of a string.
hash(s) == h[s]

\* The key computed in the loops of add_node and remove_node.
replica_key(node, i) == hash(replica_string(node, i))

\* Option<&T>: None is the empty sequence, Some(n) is <<n>>.
None == << >>
Some(n) == <<n>>

\* ----------------------------------------------------------------- BTreeMap
EmptyMap == [p \in {} |-> p]

\* An insertion that, finding k occupied, stores the value at the smallest
\* free position instead of overwriting.
insert_probe(r, k, v) ==
    LET free == Positions \ DOMAIN r
        slot == IF k \notin DOMAIN r \/ free = {} THEN k
                ELSE CHOOSE p \in free : \A q \in free : p <= q
    IN  [p \in (DOMAIN r) \cup {slot} |-> IF p = slot THEN v ELSE r[p]]

\* An insertion that keeps the value already stored at k.
insert_keep(r, k, v) ==
    [p \in (DOMAIN r) \cup {k} |-> IF p \in DOMAIN r THEN r[p] ELSE v]

\* BTreeMap::insert: the entry at k is created or overwritten.
insert(r, k, v) == [p \in (DOMAIN r) \cup {k} |-> IF p = k THEN v ELSE r[p]]

\* A removal that also deletes every entry below k.
remove_through(r, k) == [p \in { q \in DOMAIN r : q > k } |-> r[p]]

\* BTreeMap::remove: the entry at k is deleted if present.
remove(r, k) == [p \in (DOMAIN r) \ {k} |-> r[p]]

\* BTreeMap::keys: the stored keys in ascending order.
RECURSIVE keys_from(_, _)
keys_from(r, p) ==
    IF p > MaxPos THEN << >>
    ELSE IF p \in DOMAIN r THEN <<p>> \o keys_from(r, p + 1)
    ELSE keys_from(r, p + 1)

keys(r) == keys_from(r, 0)


\* --------------------------------------------------------------- Ring state
\* Ring::new(num_replicas): an empty map; no validation of the count.
new(n) == [num_replicas |-> n, ring |-> EmptyMap]

\* The loop of add_node stopping one replica early.
RECURSIVE add_loop_short(_, _, _)
add_loop_short(r, node, i) ==
    IF i + 1 >= num_replicas THEN r
    ELSE add_loop_short(insert(r, replica_key(node, i), node), node, i + 1)

\* The loop of add_node from replica i on: insert a copy of the node at
\* each replica key, overwriting whatever is stored there.
RECURSIVE add_loop(_, _, _)
add_loop(r, node, i) ==
    IF i >= num_replicas THEN r
    ELSE add_loop(insert(r, replica_key(node, i), node), node, i + 1)

\* add_node with its loop started at replica 1.
add_node_from_one(r, node) == add_loop(r, node, 1)

\* Ring::add_node.
add_node(r, node) == add_loop(r, node, 0)

\* The loop of remove_node deleting an entry only when it holds a node
\* equal, field by field, to the one handed in.
RECURSIVE remove_loop_by_value(_, _, _)
remove_loop_by_value(r, node, i) ==
    IF i >= num_replicas THEN r
    ELSE LET k == replica_key(node, i)
         IN  remove_loop_by_value(
                 IF k \in DOMAIN r /\ r[k] = node THEN remove(r, k) ELSE r,
                 node, i + 1)

\* The loop of remove_node from replica i on.
RECURSIVE remove_loop(_, _, _)
remove_loop(r, node, i) ==
    IF i >= num_replicas THEN r
    ELSE remove_loop(remove(r, replica_key(node, i)), node, i + 1)

\* The assertion without its negation: assert!(self.ring.is_empty()).
assert_inverted(r) == DOMAIN r # {}

\* An assertion that never fails.
assert_never(r) == FALSE

\* assert!(!self.ring.is_empty()) of remove_node and get_node.
assert_fails(r) == DOMAIN r = {}

\* remove_node with its loop started at replica 1.
remove_node_from_one(r, node) ==
    IF assert_fails(r) THEN [ring |-> r, aborted |-> TRUE]
    ELSE [ring |-> remove_loop(r, node, 1), aborted |-> FALSE]

\* remove_node emptying the whole map.
remove_node_clear(r, node) ==
    IF assert_fails(r) THEN [ring |-> r, aborted |-> TRUE]
    ELSE [ring |-> EmptyMap, aborted |-> FALSE]

\* Ring::remove_node: the map afterwards and whether the assertion failed.
remove_node(r, node) ==
    IF assert_fails(r) THEN [ring |-> r, aborted |-> TRUE]
    ELSE [ring |-> remove_loop(r, node, 0), aborted |-> FALSE]

\* The loop of add_node storing a copy of another value v at the replica
\* keys of the node.
RECURSIVE add_loop_value(_, _, _, _)
add_loop_value(r, node, v, i) ==
    IF i >= num_replicas THEN r
    ELSE add_loop_value(insert(r, replica_key(node, i), v), node, v, i + 1)

RECURSIVE add_nodes_value(_, _, _)
add_nodes_value(r, nodes, v) ==
    IF nodes = << >> THEN r
    ELSE add_nodes_value(add_loop_value(r, Head(nodes), v, 0), Tail(nodes), v)

\* add_nodes storing the first element of the slice at the keys of every
\* element.
add_nodes_stale(r, nodes) ==
    IF nodes = << >> THEN r ELSE add_nodes_value(r, nodes, Head(nodes))

\* Ring::add_nodes: add_node on each element in order.
RECURSIVE add_nodes(_, _)
add_nodes(r, nodes) ==
    IF nodes = << >> THEN r
    ELSE add_nodes(add_node(r, Head(nodes)), Tail(nodes))

\* Ring::remove_nodes: remove_node on each element in order; a failed
\* assertion ends the call where it happens.  `done` counts the elements
\* whose remove_node returned.
RECURSIVE remove_nodes_from(_, _, _)
remove_nodes_from(r, nodes, done) ==
    IF nodes = << >> THEN [ring |-> r, aborted |-> FALSE, done |-> done]
    ELSE LET one == remove_node(r, Head(nodes))
         IN  IF one.aborted
             THEN [ring |-> one.ring, aborted |-> TRUE, done |-> done]
             ELSE remove_nodes_from(one.ring, Tail(nodes), done + 1)

\* remove_nodes restoring the map it started from when an element aborts.
remove_nodes_rollback(r, nodes) ==
    LET out == remove_nodes_from(r, nodes, 0)
    IN  IF out.aborted THEN [ring |-> r, aborted |-> TRUE, done |-> 0]
        ELSE out

remove_nodes(r, nodes) == remove_nodes_from(r, nodes, 0)

\* find with the test |k| *k > &key.
RECURSIVE find_strict(_, _)
find_strict(it, key) ==
    IF it = << >> THEN [item |-> None, rest |-> << >>]
    ELSE IF Head(it) > key THEN [item |-> Some(Head(it)), rest |-> Tail(it)]
    ELSE find_strict(Tail(it), key)

\* Iterator::find(|k| *k >= &key) on the key iterator: the first key that
\* satisfies the test, and the iterator as the search leaves it (advanced
\* past the key found, or exhausted).
RECURSIVE find(_, _)
find(it, key) ==
    IF it = << >> THEN [item |-> None, rest |-> << >>]
    ELSE IF Head(it) >= key THEN [item |-> Some(Head(it)), rest |-> Tail(it)]
    ELSE find(Tail(it), key)

\* Iterator::nth(0): the next item of the iterator.
nth0(it) == IF it = << >> THEN None ELSE Some(Head(it))

\* opt.and_then(|k| self.ring.get(k)).
and_then_get(r, opt) ==
    IF opt = None THEN None
    ELSE IF opt[1] \in DOMAIN r THEN Some(r[opt[1]]) ELSE None

\* Option::or: its argument is evaluated before the call.
or(a, b) == IF a # None THEN a ELSE b

\* The body of get_node after its assertion: find runs first and advances
\* the iterator `keys`; the argument of or() then takes the next key of
\* that same iterator.
get_node(r, key) ==
    LET found == find(keys(r), key)
        first == and_then_get(r, found.item)
        other == and_then_get(r, nth0(found.rest))
    IN  or(first, other)

\* ------------------------------------------------------------------ actions
Range(s) == { s[i] : i \in DOMAIN s }

\* The slices handed to the batch operations.
Batches == UNION { [1 .. n -> TestNode] : n \in 0 .. MaxBatch }

\* The record of a call: the operation, its node arguments, its key
\* argument, the Option it returned, and one fact about the state the call
\* started from:
\*   add_node      the ring was empty
\*   remove_node   the node had never been handed to the ring
\*   get_node      the ring was empty
\*   add_nodes     the ring was newly created (no call before this one)
\*   remove_nodes  the call before was add_nodes on a newly created ring,
\*                 with the same nodes
Call(op, nodes, key, res, pre) ==
    [op |-> op, nodes |-> nodes, key |-> key, res |-> res, pre |-> pre]

\* Two slices with the same elements, in any order.
SameNodes(s, t) == Len(s) = Len(t) /\ Range(s) = Range(t)

Init ==
    /\ num_replicas \in 0 .. MaxReplicas
    /\ ring = new(num_replicas).ring
    /\ h \in [HashDomain(num_replicas) -> Positions]
    /\ aborted = FALSE
    /\ registered = {}
    /\ used = {}
    /\ last = Call("new", << >>, 0, None, FALSE)

AddNode(n) ==
    /\ ~aborted
    /\ ring' = add_node(ring, n)
    /\ registered' = registered \cup {n}
    /\ used' = used \cup {n}
    /\ last' = Call("add_node", <<n>>, 0, None, assert_fails(ring))
    /\ UNCHANGED <<num_replicas, h, aborted>>

RemoveNode(n) ==
    /\ ~aborted
    /\ LET out == remove_node(ring, n)
       IN  /\ ring' = out.ring
           /\ aborted' = out.aborted
           /\ registered' = IF out.aborted THEN registered ELSE registered \ {n}
    /\ used' = used \cup {n}
    /\ last' = Call("remove_node", <<n>>, 0, None, n \notin used)
    /\ UNCHANGED <<num_replicas, h>>

\* A lookup that takes the entry it finds out of the ring.
GetNodeConsuming(k) ==
    /\ ~aborted
    /\ aborted' = assert_fails(ring)
    /\ ring' = IF find(keys(ring), k).item = None THEN ring
               ELSE remove(ring, find(keys(ring), k).item[1])
    /\ last' = Call("get_node", << >>, k,
                    IF assert_fails(ring) THEN None ELSE get_node(ring, k),
                    assert_fails(ring))
    /\ UNCHANGED <<num_replicas, h, registered, used>>

GetNode(k) ==
    /\ ~aborted
    /\ aborted' = assert_fails(ring)
    /\ last' = Call("get_node", << >>, k,
                    IF assert_fails(ring) THEN None ELSE get_node(ring, k),
                    assert_fails(ring))
    /\ UNCHANGED <<num_replicas, ring, h, registered, used>>

AddNodes(nodes) ==
    /\ ~aborted
    /\ ring' = add_nodes(ring, nodes)
    /\ registered' = registered \cup Range(nodes)
    /\ used' = used \cup Range(nodes)
    /\ last' = Call("add_nodes", nodes, 0, None, last.op = "new")
    /\ UNCHANGED <<num_replicas, h, aborted>>

RemoveNodes(nodes) ==
    /\ ~aborted
    /\ LET out == remove_nodes(ring, nodes)
       IN  /\ ring' = out.ring
           /\ aborted' = out.aborted
           /\ registered' = registered \ Range(SubSeq(nodes, 1, out.done))
           /\ used' = used \cup Range(SubSeq(nodes, 1,
                                  IF out.aborted THEN out.done + 1 ELSE out.done))
    /\ last' = Call("remove_nodes", nodes, 0, None,
                    /\ last.op = "add_nodes"
                    /\ last.pre
                    /\ SameNodes(nodes, last.nodes))
    /\ UNCHANGED <<num_replicas, h>>

Next ==
    \/ \E n \in TestNode : AddNode(n)
    \/ \E n \in TestNode : RemoveNode(n)
    \/ \E k \in Positions : GetNode(k)
    \/ \E nodes \in Batches : AddNodes(nodes)
    \/ \E nodes \in Batches : RemoveNodes(nodes)

Spec == Init /\ [][Next]_vars


\* --------------------------------------------------------------- properties
Replicas == 0 .. (num_replicas - 1)

\* The positions add_node / remove_node compute for a node.
Keys(n) == { replica_key(n, i) : i \in Replicas }

\* The nodes of S have pairwise distinct string representations.
DistinctIds(S) == \A a, b \in S : a # b => to_string(a) # to_string(b)

\* No two replicas of the nodes of S hash to one position.
NoCollisions(S) ==
    \A a, b \in S : \A i, j \in Replicas :
        (a # b \/ i # j) => replica_key(a, i) # replica_key(b, j)

\* No position of one node of S is a position of another node of S.
NoCrossCollisions(S) == \A a, b \in S : a # b => Keys(a) \cap Keys(b) = {}

Min(S) == CHOOSE x \in S : \A y \in S : x <= y

\* The entries of the ring that hold node n.
EntriesOf(n) == { p \in DOMAIN ring : ring[p] = n }

\* C1: when the nodes handed to the ring so far have pairwise distinct
\* string representations and no two of their replicas share a position,
\* every node added and not removed since holds exactly num_replicas entries
\* of the ring, the ones at hash(to_string(n) + to_string(i)), i in
\* [0, num_replicas).
C1_ReplicaInvariant ==
    (DistinctIds(used) /\ NoCollisions(used)) =>
        \A n \in registered :
            /\ \A i \in Replicas :
                  /\ replica_key(n, i) \in DOMAIN ring
                  /\ ring[replica_key(n, i)] = n
            /\ EntriesOf(n) = Keys(n)
            /\ Cardinality(EntriesOf(n)) = num_replicas

\* Two nodes are registered with two replicas each after a third call
\* removed a node, and a batch operation was among the calls.
C1_Witness ==
    /\ num_replicas = 2
    /\ DistinctIds(used) /\ NoCollisions(used)
    /\ Cardinality(registered) = 2
    /\ last.op = "add_nodes"
    /\ ~last.pre
    /\ Cardinality(DOMAIN ring) = 4

\* The clockwise successor of key k among the stored positions, wrapping to
\* the smallest position when k lies beyond the largest.
Successor(r, k) ==
    LET ge == { p \in DOMAIN r : p >= k }
    IN  IF ge # {} THEN Min(ge) ELSE Min(DOMAIN r)

\* C2: on a non-empty ring get_node(k) returns the node stored at the
\* smallest position >= k, and the node at the smallest position of the ring
\* when k is greater than every stored position.
C2_SuccessorWithWrap ==
    (last.op = "get_node" /\ ~last.pre) =>
        last.res = Some(ring[Successor(ring, last.key)])

\* C3: get_node never returns None on a non-empty ring.
C3_NeverAbsent ==
    (last.op = "get_node" /\ ~last.pre) => last.res # None

\* The elements of a slice are pairwise distinct.
NoRepeats(s) == Cardinality(Range(s)) = Len(s)

\* remove_nodes(S) has just run right after add_nodes(S) on a newly created
\* ring, S being distinct nodes with distinct string representations.
RoundTrip ==
    /\ last.op = "remove_nodes"
    /\ last.pre
    /\ NoRepeats(last.nodes)
    /\ DistinctIds(Range(last.nodes))

\* C4 as stated: add_nodes(S) then remove_nodes(S) on a new ring completes
\* and leaves the ring empty.
C4_RoundTripCompletes == RoundTrip => (~aborted /\ ring = EmptyMap)

\* C4 as amended: the ring is empty afterwards in every case; remove_nodes
\* completes when S is empty, or when num_replicas >= 1 and no node of S
\* shares a position with another node of S.
C4_RoundTripAmended ==
    RoundTrip =>
        /\ ring = EmptyMap
        /\ (\/ last.nodes = << >>
            \/ (num_replicas >= 1 /\ NoCrossCollisions(Range(last.nodes))))
              => ~aborted

\* The round trip has completed for two nodes with two replicas each.
C4_Witness ==
    /\ RoundTrip
    /\ Len(last.nodes) = 2
    /\ num_replicas = 2
    /\ NoCrossCollisions(Range(last.nodes))
    /\ ~aborted
    /\ ring = EmptyMap

\* C5: for a registered node n none of whose positions is a position of
\* another node handed to the ring, get_node at each replica position of n
\* returns n.
C5_ExactHit ==
    \A n \in registered :
        (\A m \in used \ {n} : Keys(m) \cap Keys(n) = {}) =>
            \A i \in Replicas :
                /\ get_node(ring, replica_key(n, i)) = Some(n)
                /\ (last.op = "get_node" /\ last.key = replica_key(n, i))
                      => last.res = Some(n)

\* get_node was called with a replica position of a registered node while
\* another node was registered too, and it returned that node.
C5_Witness ==
    /\ last.op = "get_node"
    /\ Cardinality(registered) = 2
    /\ \E n \in registered : \E i \in Replicas :
          /\ \A m \in used \ {n} : Keys(m) \cap Keys(n) = {}
          /\ last.key = replica_key(n, i)
          /\ last.res = Some(n)
          /\ \E p \in DOMAIN ring : p < last.key /\ ring[p] # n


\* C6: on a ring with num_replicas >= 1 that holds exactly one registered
\* node n, get_node(k) returns n for every key k.
C6_SingleNodeOwnsAll ==
    (/\ last.op = "get_node"
     /\ num_replicas >= 1
     /\ \E n \in TestNode :
           /\ registered = {n}
           /\ DOMAIN ring = Keys(n)
           /\ \A p \in DOMAIN ring : ring[p] = n)
    => last.res = Some(CHOOSE n \in TestNode : registered = {n})

\* C7: a remove_node or get_node call aborts exactly when the ring is empty
\* when it is called, and then neither changes the ring nor returns a value;
\* add_node never aborts.
C7_AbortIffEmpty ==
    [][ /\ (last'.op \in {"remove_node", "get_node"}) =>
              /\ aborted' <=> (DOMAIN ring = {})
              /\ aborted' => (ring' = ring /\ last'.res = None)
        /\ (last'.op = "add_node") => ~aborted'
      ]_vars

\* A lookup has aborted on a ring that nodes had been added to and removed
\* from again.
C7_Witness ==
    /\ aborted
    /\ last.op = "get_node"
    /\ num_replicas >= 1
    /\ used # {}
    /\ ring = EmptyMap

\* What a caller observes of get_node(k) on ring r: the abort, or the Option.
Lookup(r, k) ==
    IF assert_fails(r) THEN [aborted |-> TRUE, res |-> None]
    ELSE [aborted |-> FALSE, res |-> get_node(r, k)]

\* C8: without position collisions, after add_node(n) every lookup is
\* unchanged or returns n; and after a remove_node(n) that leaves the ring
\* non-empty, every key whose lookup did not return n returns what it
\* returned before.
C8_MinimalRemapping ==
    [][ NoCollisions(used') =>
          /\ (last'.op = "add_node") =>
                \A k \in Positions :
                    \/ Lookup(ring', k) = Lookup(ring, k)
                    \/ Lookup(ring', k) =
                          [aborted |-> FALSE, res |-> Some(last'.nodes[1])]
          /\ (last'.op = "remove_node" /\ ~aborted' /\ ring' # EmptyMap) =>
                \A k \in Positions :
                    (Lookup(ring, k).res # Some(last'.nodes[1]))
                        => Lookup(ring', k) = Lookup(ring, k)
      ]_vars

\* C9: after add_node(n) on an empty ring every entry holds n, the entries
\* are the ones at n's replica positions, and there are exactly num_replicas
\* of them when no two replicas of n share a position.
C9_AddOnEmpty ==
    (last.op = "add_node" /\ last.pre) =>
        LET n == last.nodes[1]
        IN  /\ \A p \in DOMAIN ring : ring[p] = n
            /\ DOMAIN ring = Keys(n)
            /\ NoCollisions({n}) => Cardinality(DOMAIN ring) = num_replicas

\* A node was added to a ring that had been emptied again, and holds two
\* entries.
C9_Witness ==
    /\ last.op = "add_node"
    /\ last.pre
    /\ num_replicas = 2
    /\ Cardinality(used) = 2
    /\ Cardinality(DOMAIN ring) = 2

\* C10: remove_node(m) on a non-empty ring, for a node m that is not
\* registered (a node never added in particular), does not abort and deletes
\* exactly the entries stored at m's computed positions: the ring is
\* unchanged when no stored key is one of them.
C10_RemoveUnknown ==
    [][ (/\ last'.op = "remove_node"
         /\ last'.nodes[1] \notin registered
         /\ DOMAIN ring # {})
        => LET m == last'.nodes[1]
           IN  /\ ~aborted'
               /\ ring' = [p \in (DOMAIN ring) \ Keys(m) |-> ring[p]]
               /\ (Keys(m) \cap DOMAIN ring = {}) => ring' = ring
      ]_vars

\* remove_node was called with a node never handed to the ring before, and
\* it deleted an entry of a registered node with another string
\* representation.
C10_Witness ==
    /\ last.op = "remove_node"
    /\ last.pre
    /\ ~aborted
    /\ \E n \in registered :
          /\ to_string(n) # to_string(last.nodes[1])
          /\ ~(Keys(n) \subseteq DOMAIN ring)


\* C11: a ring created with num_replicas = 0 is accepted, stays empty
\* whatever is added to it, and every get_node call on it aborts on the
\* empty-ring assertion.
C11_ZeroReplicas ==
    (num_replicas = 0) =>
        /\ ring = EmptyMap
        /\ (last.op \in {"new", "add_node", "add_nodes"}) => ~aborted
        /\ (last.op = "get_node") => (aborted /\ last.res = None)

\* A lookup has aborted on a ring with no replicas after nodes were added.
C11_Witness ==
    /\ num_replicas = 0
    /\ registered # {}
    /\ last.op = "get_node"
    /\ aborted

\* C12: after remove_node(m) has returned, no entry is left at a replica
\* position of any node with m's string representation, and no entry holds
\* such a node, whatever its other fields are.
C12_RemovalByString ==
    (last.op = "remove_node" /\ ~aborted) =>
        LET m == last.nodes[1]
        IN  \A n \in TestNode :
                (n.ip_address \o int_to_string(n.port)
                    = m.ip_address \o int_to_string(m.port))
                => /\ Keys(n) \cap DOMAIN ring = {}
                   /\ EntriesOf(n) = {}

\* remove_node was called with a node never handed to the ring before that
\* shares its string with the one node added, under another host_name.
C12_Witness ==
    /\ last.op = "remove_node"
    /\ last.pre
    /\ ~aborted
    /\ num_replicas = 2
    /\ \E n \in registered :
          /\ n # last.nodes[1]
          /\ n.host_name # last.nodes[1].host_name
          /\ to_string(n) = to_string(last.nodes[1])
          /\ used = {n, last.nodes[1]}
          /\ Cardinality(Keys(n)) = 2
    /\ ring = EmptyMap


\* The ring after add_node was called on the first j elements of a slice,
\* one call after the other.
RECURSIVE AddedOneByOne(_, _, _)
AddedOneByOne(r, nodes, j) ==
    IF j = 0 THEN r
    ELSE add_node(AddedOneByOne(r, nodes, j - 1), nodes[j])

\* The ring after remove_node was called on the first j elements of a
\* slice, one call after the other.
RECURSIVE RemovedOneByOne(_, _, _)
RemovedOneByOne(r, nodes, j) ==
    IF j = 0 THEN r
    ELSE remove_node(RemovedOneByOne(r, nodes, j - 1), nodes[j]).ring

\* The j-th of these remove_node calls aborts.
AbortsAt(r, nodes, j) ==
    remove_node(RemovedOneByOne(r, nodes, j - 1), nodes[j]).aborted

\* The elements of a slice at which the one-by-one removal stops: the first
\* whose call aborts, if any.
Stops(r, nodes) ==
    { j \in 1 .. Len(nodes) :
        /\ AbortsAt(r, nodes, j)
        /\ \A i \in 1 .. (j - 1) : ~AbortsAt(r, nodes, i) }

\* C13: add_nodes(L) leaves the ring that add_node on each element in order
\* leaves; remove_nodes(L) leaves the ring that remove_node on each element
\* in order leaves, and when the call on the j-th element aborts the batch
\* aborts with the first j-1 removals applied and none undone.
C13_BatchIsSequence ==
    [][ /\ (last'.op = "add_nodes") =>
              /\ ~aborted'
              /\ ring' = AddedOneByOne(ring, last'.nodes, Len(last'.nodes))
        /\ (last'.op = "remove_nodes") =>
              LET L == last'.nodes
              IN  IF Stops(ring, L) = {}
                  THEN /\ ~aborted'
                       /\ ring' = RemovedOneByOne(ring, L, Len(L))
                       /\ registered' = registered \ Range(L)
                  ELSE \E j \in Stops(ring, L) :
                       /\ aborted'
                       /\ ring' = RemovedOneByOne(ring, L, j - 1)
                       /\ registered' =
                              registered \ Range(SubSeq(L, 1, j - 1))
      ]_vars

\* remove_nodes has aborted on its second element after add_nodes of the
\* same two nodes on a new ring: the first element's entries are gone and
\* the ring is not restored.
C13_Witness ==
    /\ last.op = "remove_nodes"
    /\ last.pre
    /\ aborted
    /\ num_replicas >= 1
    /\ Len(last.nodes) = 2
    /\ last.nodes[1] # last.nodes[2]
    /\ last.nodes[1] \notin registered
    /\ last.nodes[2] \in registered
    /\ ring = EmptyMap


\* C14: get_node leaves the ring, the replica count and the hash as they
\* are, and a get_node call that follows a get_node call with the same key
\* returns the same result.
C14_LookupDeterminism ==
    [][ (last'.op = "get_node") =>
          /\ ring' = ring
          /\ num_replicas' = num_replicas
          /\ h' = h
          /\ (last.op = "get_node" /\ last.key = last'.key) =>
                (last'.res = last.res /\ ~aborted')
      ]_vars

\* A lookup has returned a node on a ring with several entries, where the
\* same lookup can be repeated.
C14_Witness ==
    /\ last.op = "get_node"
    /\ ~aborted
    /\ last.res # None
    /\ Cardinality(DOMAIN ring) >= 3
    /\ Cardinality(registered) >= 2


\* C15: an add_node(n) call that follows an add_node(n) call leaves the
\* ring and the registration exactly as the first call left them and is not
\* rejected; a remove_node(n) call that follows them leaves no entry at a
\* position of n and no entry holding n.
C15_AddIdempotent ==
    [][ /\ (/\ last.op = "add_node"
            /\ last'.op = "add_node"
            /\ last'.nodes = last.nodes)
           => /\ ring' = ring
              /\ registered' = registered
              /\ ~aborted'
        /\ (/\ last.op = "add_node"
            /\ last'.op = "remove_node"
            /\ last'.nodes = last.nodes)
           => /\ (num_replicas >= 1) => ~aborted'
              /\ \A p \in DOMAIN ring' :
                    /\ p \notin Keys(last.nodes[1])
                    /\ ring'[p] # last.nodes[1]
      ]_vars

\* The only node ever handed to the ring was added while the ring was not
\* empty, that is, while its own two entries were stored already.
C15_Witness ==
    /\ last.op = "add_node"
    /\ ~last.pre
    /\ num_replicas = 2
    /\ used = {last.nodes[1]}
    /\ registered = used
    /\ Cardinality(DOMAIN ring) = 2


\* C16: add_node(b) never aborts and leaves b at each of its positions,
\* also at a position that held another node before, the stored positions
\* being the old ones and b's; remove_node(a) on a non-empty ring deletes
\* the entry at each position of a, also where the entry holds another node.
C16_CollisionOverwrites ==
    [][ /\ (last'.op = "add_node") =>
              LET b == last'.nodes[1]
              IN  /\ ~aborted'
                  /\ DOMAIN ring' = (DOMAIN ring) \cup Keys(b)
                  /\ \A p \in Keys(b) : ring'[p] = b
        /\ (last'.op = "remove_node" /\ DOMAIN ring # {}) =>
              LET a == last'.nodes[1]
              IN  /\ ~aborted'
                  /\ \A p \in Keys(a) : p \notin DOMAIN ring'
      ]_vars

\* Node b was added after node a, which has another string representation
\* and is still registered, and a position of a now holds b.
C16_Witness ==
    /\ last.op = "add_node"
    /\ ~last.pre
    /\ \E a \in registered :
          /\ to_string(a) # to_string(last.nodes[1])
          /\ used = {a, last.nodes[1]}
          /\ \E p \in Keys(a) \cap Keys(last.nodes[1]) :
                ring[p] = last.nodes[1]


\* C17: every stored entry sits at a replica position of the node it holds:
\* its key is hash(to_string(v) + to_string(i)) for the stored node v and
\* some i in [0, num_replicas).
C17_EntriesAtOwnKeys ==
    \A p \in DOMAIN ring :
        \E i \in Replicas : p = replica_key(ring[p], i)

\* Nodes whose positions collide are stored after one of the nodes handed
\* to the ring was removed.
C17_Witness ==
    /\ ~NoCollisions(used)
    /\ DistinctIds(used)
    /\ Cardinality(used) = 2
    /\ Cardinality(registered) = 1
    /\ num_replicas = 2
    /\ last.op = "remove_node"
    /\ ~last.pre
    /\ ring # EmptyMap


\* Position p is stored after the step exactly when it was stored before,
\* with the same node.
SameAt(p) ==
    /\ (p \in DOMAIN ring') <=> (p \in DOMAIN ring)
    /\ (p \in DOMAIN ring) => ring'[p] = ring[p]

\* C18: no operation changes num_replicas; add_node(n) and remove_node(n)
\* change the ring only at the replica positions of n, the batch forms only
\* at the replica positions of their elements, and get_node nowhere.
C18_Frame ==
    [][ /\ num_replicas' = num_replicas
        /\ (last'.op \in {"add_node", "remove_node"}) =>
              \A p \in Positions \ Keys(last'.nodes[1]) : SameAt(p)
        /\ (last'.op \in {"add_nodes", "remove_nodes"}) =>
              \A p \in Positions \ UNION { Keys(n) : n \in Range(last'.nodes) } :
                  SameAt(p)
        /\ (last'.op = "get_node") => \A p \in Positions : SameAt(p)
      ]_vars

\* A node was removed from a ring that still holds the two entries of
\* another node, none of them at a position of the removed one.
C18_Witness ==
    /\ last.op = "remove_node"
    /\ ~last.pre
    /\ ~aborted
    /\ num_replicas = 2
    /\ last.nodes[1] \notin registered
    /\ \E m \in registered :
          /\ Keys(m) \cap Keys(last.nodes[1]) = {}
          /\ Cardinality(Keys(m)) = 2
          /\ DOMAIN ring = Keys(m)
          /\ \A p \in Keys(m) : ring[p] = m

=============================================================================
